---- MODULE Spec2Model ----
(***************************************************************************)
(* A model of the KVDB Python client (sdk/python/kvdb_client/client.py):   *)
(* the connection state, the subscription registry with one receive loop   *)
(* (thread) per subscription, and the caller thread that subscribes,       *)
(* cancels and disconnects.  Every membership test and every removal of    *)
(* the registry is one step of its own, as the client takes no lock.       *)
(* The facade calls (single keys, snapshots, batches, scans) run against a *)
(* server that handles each request in one of a few ways; the async        *)
(* wrapper is the executor's queue and its workers.                        *)
(*   Spec       connection and subscriptions, one caller thread            *)
(*   SpecIds    subscribe called from several threads                      *)
(*   SpecKV     put, get, delete and the snapshot calls                    *)
(*   SpecBatch  put, get, delete, batch_put, batch_get, scan, prefix_scan  *)
(*   SpecAsync  put_async, get_async, delete_async                         *)
(***************************************************************************)
EXTENDS Integers, Sequences, FiniteSets, TLC

\* Bounds of the model.
MaxSubs == 2
MaxEvents == 2

Ids == 0 .. (MaxSubs - 1)
NoId == 0 - 1
NotCancelled == 0 - 1

MaxSnaps == 1

\* The threads that call subscribe at the same time, and the calls of each.
MaxCallers == 2
MaxCalls == 2
Callers == 1 .. MaxCallers
NoCaller == 0

\* ThreadPoolExecutor(max_workers=10), and the number of async calls made.
max_workers == 10
MaxTasks == 11
TaskIds == 1 .. MaxTasks

Keys == {"k1"}
BatchKeys == {"k1", "k2"}
Values == {"v1", "v2"}
None == "None"
Unknown == "Unknown"
Deleted == "Deleted"
SnapIds == 0 .. (MaxSnaps - 1)
NoSnap == 0 - 1
ErrMsgs == {"E1"}

VARIABLES
    protocol,              \* ClientConfig.protocol
    connected,             \* KVDBClient._connected
    closed,                \* the channel / session has been closed
    subscriptions,         \* keys of KVDBClient._subscriptions
    subscription_counter,  \* KVDBClient._subscription_counter
    caller,                \* the caller thread: where it is in cancel/disconnect
    tpc,                   \* per subscription id: where its receive loop is
    stream,                \* per id: state of the server's event stream
    sent,                  \* per id: number of events the server has streamed
    rcvd,                  \* per id: number of events the loop has received
    delivered,             \* per id: the callback invocations, in order
    lateFrom,              \* ghost, per id: events sent when cancel returned
    exited,                \* ghost: how the last disconnect / with-block ended
    exitIds,               \* ghost: the ids created before that disconnect
    last,                  \* the last lifecycle call that completed, its outcome
    store,                 \* server: the current value of every key
    snapState,             \* server: per snapshot id, free / live / released
    snaps,                 \* server: per snapshot id, the frozen view
    expect,                \* ghost: per key, what the client's own writes left
    viewOk,                \* ghost: the snapshot handles the client holds
    snapView,              \* ghost: per handle, expect when it was created
    hung,                  \* the caller is blocked in a call that never returns
    reply,                 \* the last request: the server's answer, the outcome
    wireLog,               \* the requests the last facade call put on the wire
    breply,                \* the last batch or scan call: answer and outcome
    tasks,                 \* per async call: its state in the executor
    resolved,              \* the async call completed last: its result
    sc,                    \* per subscribing thread: where it is in subscribe
    issued,                \* per id: how many subscribe calls have returned it
    owner                  \* per id: the thread whose receive loop is registered

batchVars == << wireLog, breply >>

asyncVars == << tasks, resolved >>

idVars == << sc, issued, owner >>

kvVars == << store, snapState, snaps, expect, viewOk, snapView, hung, reply,
             batchVars, asyncVars, idVars >>

vars == << protocol, connected, closed, subscriptions, subscription_counter,
           caller, tpc, stream, sent, rcvd, delivered, lateFrom, exited,
           exitIds, last, kvVars >>

subVars == << tpc, stream, sent, rcvd, delivered >>

Min(S) == CHOOSE x \in S : \A y \in S : x <= y

Idle == [pc |-> "idle", id |-> NoId, pending |-> {}, inDisc |-> FALSE]

Done(op, out) == [op |-> op, out |-> out]

\* The ids whose cancel_subscription call has returned.
CancelReturned == { i \in Ids : lateFrom[i] # NotCancelled }

\* The outcome of a facade call: a returned value, a raised exception (its
\* class in v, its message in msg), or a call that never returns.
Ret(v) == [t |-> "ret", v |-> v, sid |-> NoSnap, msg |-> ""]
RetSnap(s) == [t |-> "ret", v |-> "Snapshot", sid |-> s, msg |-> ""]
Raise(cls, m) == [t |-> "raise", v |-> cls, sid |-> NoSnap, msg |-> m]
Hang == [t |-> "hang", v |-> "", sid |-> NoSnap, msg |-> ""]

EmptyStore == [k \in BatchKeys |-> None]

NoWire == [kind |-> "none"]
NoSrv == [h |-> "none", found |-> FALSE, value |-> None, sid |-> NoSnap]
NoReply == [op |-> "none", key |-> "", val |-> "", snap |-> NoSnap,
            srv |-> NoSrv, wire |-> NoWire, out |-> Ret(None)]

\* An async call that has not been made, or whose future is not resolved.
Pending == [t |-> "pending", v |-> "", sid |-> NoSnap, msg |-> ""]
NoneResolved == [op |-> "none", ran |-> Pending, fut |-> Pending]

\* The outcome of a call that returns a list of KeyValue (or True, or raises).
RetList(l) == [t |-> "ret", v |-> "List", msg |-> "", list |-> l]
ListOut(o) == [t |-> o.t, v |-> o.v, msg |-> o.msg, list |-> << >>]

NoListSrv == [h |-> "none", pairs |-> << >>]
NoBReply == [op |-> "none", pairs |-> << >>, keys |-> << >>, limit |-> 0,
             after |-> << >>, srv |-> NoListSrv, wire |-> NoWire,
             out |-> ListOut(Ret(None))]

----------------------------------------------------------------------------
\* KVDBClient.__init__

Init ==
    /\ protocol \in {"grpc", "http"}
    /\ connected = FALSE
    /\ closed = FALSE
    /\ subscriptions = {}
    /\ subscription_counter = 0
    /\ caller = Idle
    /\ tpc = [i \in Ids |-> "none"]
    /\ stream = [i \in Ids |-> "none"]
    /\ sent = [i \in Ids |-> 0]
    /\ rcvd = [i \in Ids |-> 0]
    /\ delivered = [i \in Ids |-> << >>]
    /\ lateFrom = [i \in Ids |-> NotCancelled]
    /\ exited = "no"
    /\ exitIds = {}
    /\ last = Done("init", "None")
    /\ store = EmptyStore
    /\ snapState = [s \in SnapIds |-> "free"]
    /\ snaps = [s \in SnapIds |-> EmptyStore]
    /\ expect = EmptyStore
    /\ viewOk = {}
    /\ snapView = [s \in SnapIds |-> EmptyStore]
    /\ hung = FALSE
    /\ reply = NoReply
    /\ wireLog = << >>
    /\ breply = NoBReply
    /\ tasks = [t \in TaskIds |-> "none"]
    /\ resolved = NoneResolved
    /\ sc = [c \in Callers |-> [pc |-> "idle", id |-> NoId, tmp |-> 0, calls |-> 0]]
    /\ issued = [i \in Ids |-> 0]
    /\ owner = [i \in Ids |-> NoCaller]

----------------------------------------------------------------------------
\* The caller thread.

\* connect(): the transport is verified or ConnectionError is raised.
ConnectFlagFirst ==
    /\ caller.pc = "idle"
    /\ connected' = TRUE
    /\ \E ok \in BOOLEAN :
         last' = Done("connect", IF ok THEN "True" ELSE "ConnectionError")
    /\ exited' = "no"
    /\ UNCHANGED << kvVars, protocol, closed, subscriptions, subscription_counter,
                    caller, subVars, lateFrom, exitIds >>
Connect ==
    /\ caller.pc = "idle"
    /\ \E ok \in BOOLEAN :
         IF ok
         THEN /\ connected' = TRUE
              /\ last' = Done("connect", "True")
         ELSE /\ connected' = connected
              /\ last' = Done("connect", "ConnectionError")
    /\ exited' = "no"
    /\ UNCHANGED << kvVars, protocol, closed, subscriptions, subscription_counter,
                    caller, subVars, lateFrom, exitIds >>

\* subscribe(): the capability test of the first line.
SubscribeUnsupportedAlt == protocol = "tcp"
SubscribeUnsupported == protocol # "grpc"

\* subscribe(): take the id, register the thread, start it.
Subscribe ==
    /\ caller.pc = "idle"
    /\ IF SubscribeUnsupported
       THEN /\ last' = Done("subscribe", "KVDBError")
            /\ UNCHANGED << subscriptions, subscription_counter, tpc >>
       ELSE /\ subscription_counter < MaxSubs
            /\ subscription_counter' = subscription_counter + 1
            /\ subscriptions' = subscriptions \cup {subscription_counter}
            /\ tpc' = [tpc EXCEPT ![subscription_counter] = "start"]
            /\ last' = Done("subscribe", "Id")
    /\ UNCHANGED << kvVars, protocol, connected, closed, caller, stream, sent, rcvd,
                    delivered, lateFrom, exited, exitIds >>

\* cancel_subscription returns normally: to the disconnect loop, or to the user.
CancelReturn(id) ==
    /\ lateFrom' = IF id < subscription_counter /\ lateFrom[id] = NotCancelled
                   THEN [lateFrom EXCEPT ![id] = sent[id]]
                   ELSE lateFrom
    /\ IF caller.inDisc
       THEN /\ caller' = [caller EXCEPT !.pc = "disc_loop", !.id = NoId]
            /\ last' = last
       ELSE /\ caller' = Idle
            /\ last' = Done("cancel", "None")

\* cancel_subscription raises KeyError; inside disconnect it ends the disconnect.
CancelRaise ==
    /\ caller' = Idle
    /\ lateFrom' = lateFrom
    /\ last' = Done(IF caller.inDisc THEN "disconnect" ELSE "cancel", "KeyError")
    /\ exited' = IF caller.inDisc THEN "raised" ELSE exited
    /\ exitIds' = IF caller.inDisc THEN 0 .. (subscription_counter - 1) ELSE exitIds

\* cancel_subscription(id), called by the user: the membership test.
CancelTest(id) ==
    /\ caller.pc = "idle"
    /\ IF id \in subscriptions
       THEN /\ caller' = [caller EXCEPT !.pc = "cancel_del", !.id = id]
            /\ UNCHANGED << lateFrom, last >>
       ELSE CancelReturn(id)
    /\ UNCHANGED << kvVars, protocol, connected, closed, subscriptions,
                    subscription_counter, subVars, exited, exitIds >>

\* cancel_subscription: the removal that follows a successful test.
CancelDelClear ==
    /\ caller.pc = "cancel_del"
    /\ subscriptions' = {}
    /\ CancelReturn(caller.id)
    /\ UNCHANGED << exited, exitIds >>
    /\ UNCHANGED << kvVars, protocol, connected, closed, subscription_counter, subVars >>
CancelDel ==
    /\ caller.pc = "cancel_del"
    /\ IF caller.id \in subscriptions
       THEN /\ subscriptions' = subscriptions \ {caller.id}
            /\ CancelReturn(caller.id)
            /\ UNCHANGED << exited, exitIds >>
       ELSE /\ subscriptions' = subscriptions
            /\ CancelRaise
    /\ UNCHANGED << kvVars, protocol, connected, closed, subscription_counter, subVars >>

\* disconnect(): clear the flag and take the list of the registry's keys.
DisconnectBegin ==
    /\ caller.pc = "idle"
    /\ connected' = FALSE
    /\ caller' = [pc |-> "disc_loop", id |-> NoId, pending |-> subscriptions,
                  inDisc |-> TRUE]
    /\ exited' = "no"
    /\ UNCHANGED << kvVars, protocol, closed, subscriptions, subscription_counter,
                    subVars, lateFrom, exitIds, last >>

\* disconnect(): closing the transport ends every stream of the channel.
CloseStreams == [i \in Ids |-> IF stream[i] = "open" THEN "error" ELSE stream[i]]

\* disconnect(): the next id of the list (its membership test), or the close.
DisconnectStep ==
    /\ caller.pc = "disc_loop"
    /\ IF caller.pending = {}
       THEN /\ closed' = TRUE
            /\ stream' = CloseStreams
            /\ caller' = Idle
            /\ last' = Done("disconnect", "None")
            /\ exited' = "returned"
            /\ exitIds' = 0 .. (subscription_counter - 1)
            /\ lateFrom' = lateFrom
       ELSE LET id == Min(caller.pending) IN
            /\ UNCHANGED << closed, stream, exited, exitIds >>
            /\ IF id \in subscriptions
               THEN /\ caller' = [caller EXCEPT !.pc = "cancel_del", !.id = id,
                                                !.pending = @ \ {id}]
                    /\ UNCHANGED << lateFrom, last >>
               ELSE /\ lateFrom' = IF lateFrom[id] = NotCancelled
                                   THEN [lateFrom EXCEPT ![id] = sent[id]]
                                   ELSE lateFrom
                    /\ caller' = [caller EXCEPT !.pending = @ \ {id}]
                    /\ last' = last
    /\ UNCHANGED << kvVars, protocol, connected, subscriptions, subscription_counter,
                    tpc, sent, rcvd, delivered >>

----------------------------------------------------------------------------
\* The server side of one subscription's stream.

ServerSend(id) ==
    /\ stream[id] = "open"
    /\ sent[id] < MaxEvents
    /\ sent' = [sent EXCEPT ![id] = @ + 1]
    /\ UNCHANGED << kvVars, protocol, connected, closed, subscriptions,
                    subscription_counter, caller, tpc, stream, rcvd, delivered,
                    lateFrom, exited, exitIds, last >>

ServerClose(id) ==
    /\ stream[id] = "open"
    /\ \E how \in {"ended", "error"} : stream' = [stream EXCEPT ![id] = how]
    /\ UNCHANGED << kvVars, protocol, connected, closed, subscriptions,
                    subscription_counter, caller, tpc, sent, rcvd, delivered,
                    lateFrom, exited, exitIds, last >>

----------------------------------------------------------------------------
\* subscription_thread: the receive loop of subscription id.

thrFrame == << kvVars, protocol, connected, closed, subscription_counter, caller,
               lateFrom, exited, exitIds, last >>

\* The thread starts and opens the stream (self._stub.Subscribe(request)).
ThreadStart(id) ==
    /\ tpc[id] = "start"
    /\ tpc' = [tpc EXCEPT ![id] = "recv"]
    /\ stream' = [stream EXCEPT ![id] = IF closed THEN "error" ELSE "open"]
    /\ UNCHANGED << thrFrame, subscriptions, sent, rcvd, delivered >>

\* The for statement: the next response, the end of the stream, or RpcError
\* (whose handler only prints).
Receive(id) ==
    /\ tpc[id] = "recv"
    /\ \/ /\ rcvd[id] < sent[id]
          /\ rcvd' = [rcvd EXCEPT ![id] = @ + 1]
          /\ tpc' = [tpc EXCEPT ![id] = "check"]
       \/ /\ rcvd[id] = sent[id]
          /\ stream[id] = "ended"
          /\ rcvd' = rcvd
          /\ tpc' = [tpc EXCEPT ![id] = "finally"]
       \/ /\ stream[id] = "error"
          /\ rcvd' = rcvd
          /\ tpc' = [tpc EXCEPT ![id] = "finally"]
    /\ UNCHANGED << thrFrame, subscriptions, stream, sent, delivered >>

\* if subscription_id not in self._subscriptions: break
LoopCheckNoTest(id) == "call"
LoopCheck(id) == IF id \notin subscriptions THEN "finally" ELSE "call"

LoopTest(id) ==
    /\ tpc[id] = "check"
    /\ tpc' = [tpc EXCEPT ![id] = LoopCheck(id)]
    /\ UNCHANGED << thrFrame, subscriptions, stream, sent, rcvd, delivered >>

\* One invocation of the callback of subscription id: the event passed (the
\* n-th response of the stream of subscription src) and when it was made.
Invocation(id, src) ==
    [n |-> rcvd[src], src |-> src, late |-> id \in CancelReturned,
     afterExit |-> exited # "no" /\ id \in exitIds]

\* callback(response.key, response.value, response.operation); it may raise.
CallbackTwice(id) ==
    /\ tpc[id] = "call"
    /\ delivered' = [delivered EXCEPT ![id] =
                       Append(Append(@, Invocation(id, id)), Invocation(id, id))]
    /\ \E raises \in BOOLEAN :
         tpc' = [tpc EXCEPT ![id] = IF raises THEN "finally" ELSE "recv"]
    /\ UNCHANGED << thrFrame, subscriptions, stream, sent, rcvd >>
Callback(id) ==
    /\ tpc[id] = "call"
    /\ delivered' = [delivered EXCEPT ![id] = Append(@, Invocation(id, id))]
    /\ \E raises \in BOOLEAN :
         tpc' = [tpc EXCEPT ![id] = IF raises THEN "finally" ELSE "recv"]
    /\ UNCHANGED << thrFrame, subscriptions, stream, sent, rcvd >>

\* finally: if subscription_id in self._subscriptions
FinallyTest(id) ==
    /\ tpc[id] = "finally"
    /\ tpc' = [tpc EXCEPT ![id] = IF id \in subscriptions THEN "del" ELSE "done"]
    /\ UNCHANGED << thrFrame, subscriptions, stream, sent, rcvd, delivered >>

\* finally: del self._subscriptions[subscription_id]
FinallyDelKeeps(id) ==
    /\ tpc[id] = "del"
    /\ subscriptions' = subscriptions
    /\ tpc' = [tpc EXCEPT ![id] = "done"]
    /\ UNCHANGED << thrFrame, stream, sent, rcvd, delivered >>
FinallyDel(id) ==
    /\ tpc[id] = "del"
    /\ IF id \in subscriptions
       THEN /\ subscriptions' = subscriptions \ {id}
            /\ tpc' = [tpc EXCEPT ![id] = "done"]
       ELSE /\ subscriptions' = subscriptions
            /\ tpc' = [tpc EXCEPT ![id] = "crashed"]
    /\ UNCHANGED << thrFrame, stream, sent, rcvd, delivered >>

----------------------------------------------------------------------------
\* The server and the two wires.  The server is not part of the client: it is
\* a map from keys to values with frozen copies for the live snapshots, and
\* each request is handled in one of these ways.
\*   ok       served, and answered
\*   fail     not served; the server reports a failure with a message
\*   refused  not served; the connection is refused
\*   silent   no answer within any deadline; served or not
\*   garbled  served; the HTTP body lacks the field the client reads

Handlings(proto) ==
    IF proto = "http" THEN {"ok", "fail", "refused", "silent", "garbled"}
    ELSE {"ok", "fail", "refused", "silent"}

Reads == {"get", "get_at_snapshot"}

Servable(req) ==
    IF req.method \in {"release_snapshot", "get_at_snapshot"}
    THEN req.snapshot_id \in SnapIds /\ snapState[req.snapshot_id] = "live"
    ELSE TRUE

FreeSnaps == { s \in SnapIds : snapState[s] = "free" }

Lookup(req) ==
    IF req.method = "get" THEN store[req.key]
    ELSE IF req.method = "get_at_snapshot" THEN snaps[req.snapshot_id][req.key]
    ELSE None

\* The server's state after a request that it served.
ServerApply(req, sid) ==
    /\ store' = CASE req.method = "put" -> [store EXCEPT ![req.key] = req.value]
                  [] req.method = "delete" -> [store EXCEPT ![req.key] = None]
                  [] OTHER -> store
    /\ snapState' = CASE req.method = "create_snapshot" ->
                           [snapState EXCEPT ![sid] = "live"]
                      [] req.method = "release_snapshot" ->
                           [snapState EXCEPT ![req.snapshot_id] = "released"]
                      [] OTHER -> snapState
    /\ snaps' = CASE req.method = "create_snapshot" -> [snaps EXCEPT ![sid] = store]
                  [] req.method = "release_snapshot" ->
                           [snaps EXCEPT ![req.snapshot_id] = EmptyStore]
                  [] OTHER -> snaps

\* A gRPC response message, or the RpcError the stub raises.
GrpcMsg(success, found, value, sid, err) ==
    [kind |-> "msg", success |-> success, found |-> found, value |-> value,
     snapshot_id |-> sid, error_message |-> err, details |-> ""]
GrpcRpcError(d) ==
    [kind |-> "rpcerror", success |-> FALSE, found |-> FALSE, value |-> "",
     snapshot_id |-> NoSnap, error_message |-> "", details |-> d]

GrpcWire(op, srv) ==
    CASE srv.h = "ok" ->
           { GrpcMsg(TRUE, srv.found, IF srv.found THEN srv.value ELSE "",
                     srv.sid, "") }
      [] srv.h = "fail" ->
           { GrpcMsg(FALSE, f, "", NoSnap, e) :
               f \in (IF op \in Reads THEN BOOLEAN ELSE {FALSE}), e \in ErrMsgs }
      [] srv.h = "refused" -> { GrpcRpcError("failed to connect") }
      [] OTHER -> { GrpcRpcError("Deadline Exceeded") }

\* An HTTP response, the exception requests raises, or no answer at all.
HttpResp(status, has, value, sid, err) ==
    [kind |-> "resp", status |-> status, has_field |-> has, value |-> value,
     snapshot_id |-> sid, error_message |-> err, exc |-> ""]
HttpExc(e) ==
    [kind |-> "exc", status |-> 0, has_field |-> FALSE, value |-> "",
     snapshot_id |-> NoSnap, error_message |-> "", exc |-> e]
HttpNoAnswer ==
    [kind |-> "noanswer", status |-> 0, has_field |-> FALSE, value |-> "",
     snapshot_id |-> NoSnap, error_message |-> "", exc |-> ""]

HttpWire(op, srv) ==
    CASE srv.h = "ok" ->
           IF op \in Reads /\ ~srv.found
           THEN { HttpResp(404, FALSE, "", NoSnap, "") }
           ELSE { HttpResp(200, TRUE, IF srv.found THEN srv.value ELSE "",
                           srv.sid, "") }
      [] srv.h = "garbled" -> { HttpResp(200, FALSE, "", NoSnap, "") }
      [] srv.h = "fail" ->
           { HttpResp(st, FALSE, "", NoSnap, e) :
               st \in (IF op \in Reads THEN {404, 500} ELSE {500}), e \in ErrMsgs }
      [] srv.h = "refused" -> { HttpExc("ConnectionError") }
      [] OTHER -> { HttpNoAnswer }

Wire(proto, op, srv) == IF proto = "grpc" THEN GrpcWire(op, srv) ELSE HttpWire(op, srv)

----------------------------------------------------------------------------
\* The transport adapters of the client: what each makes of the answer.

RpcText(w) == "gRPC error: " \o w.details
StatusText(w) == IF w.status = 404 THEN "HTTP error: 404 Client Error"
                 ELSE "HTTP error: 500 Server Error"

\* A requests call without a timeout argument; raise_for_status().
HttpFault(w) ==
    IF w.kind = "noanswer" THEN Hang
    ELSE IF w.kind = "exc" THEN Raise("KVDBError", "HTTP error: " \o w.exc)
    ELSE Raise("KVDBError", StatusText(w))

grpc_put(w) ==
    IF w.kind = "rpcerror" THEN Raise("KVDBError", RpcText(w))
    ELSE IF ~w.success THEN Raise("KVDBError", w.error_message)
    ELSE Ret("True")

http_put(w) ==
    IF w.kind # "resp" \/ w.status >= 400 THEN HttpFault(w) ELSE Ret("True")

grpc_get_swapped(w) ==
    IF w.kind = "rpcerror" THEN Raise("KVDBError", RpcText(w))
    ELSE IF w.found THEN Ret(None)
    ELSE IF w.error_message # "" THEN Raise("KVDBError", w.error_message)
    ELSE Ret(w.value)
grpc_get(w) ==
    IF w.kind = "rpcerror" THEN Raise("KVDBError", RpcText(w))
    ELSE IF ~w.found THEN Ret(None)
    ELSE IF w.error_message # "" THEN Raise("KVDBError", w.error_message)
    ELSE Ret(w.value)

http_get(w) ==
    IF w.kind # "resp" THEN HttpFault(w)
    ELSE IF w.status = 404 THEN Ret(None)
    ELSE IF w.status >= 400 THEN HttpFault(w)
    ELSE IF ~w.has_field THEN Raise("KeyError", "value")
    ELSE Ret(w.value)

grpc_delete(w) ==
    IF w.kind = "rpcerror" THEN Raise("KVDBError", RpcText(w))
    ELSE IF ~w.success THEN Raise("KVDBError", w.error_message)
    ELSE Ret("True")

http_delete(w) ==
    IF w.kind # "resp" \/ w.status >= 400 THEN HttpFault(w) ELSE Ret("True")

grpc_create_snapshot(w) ==
    IF w.kind = "rpcerror" THEN Raise("KVDBError", RpcText(w))
    ELSE IF w.error_message # "" THEN Raise("KVDBError", w.error_message)
    ELSE RetSnap(w.snapshot_id)

http_create_snapshot(w) ==
    IF w.kind # "resp" \/ w.status >= 400 THEN HttpFault(w)
    ELSE IF ~w.has_field THEN Raise("KeyError", "snapshot_id")
    ELSE RetSnap(w.snapshot_id)

grpc_release_snapshot(w) ==
    IF w.kind = "rpcerror" THEN Raise("KVDBError", RpcText(w))
    ELSE IF ~w.success THEN Raise("KVDBError", w.error_message)
    ELSE Ret("True")

http_release_snapshot(w) ==
    IF w.kind # "resp" \/ w.status >= 400 THEN HttpFault(w) ELSE Ret("True")

grpc_get_at_snapshot(w) ==
    IF w.kind = "rpcerror" THEN Raise("KVDBError", RpcText(w))
    ELSE IF ~w.found THEN Ret(None)
    ELSE IF w.error_message # "" THEN Raise("KVDBError", w.error_message)
    ELSE Ret(w.value)

http_get_at_snapshot(w) ==
    IF w.kind # "resp" THEN HttpFault(w)
    ELSE IF w.status = 404 THEN Ret(None)
    ELSE IF w.status >= 400 THEN HttpFault(w)
    ELSE IF ~w.has_field THEN Raise("KeyError", "value")
    ELSE Ret(w.value)

\* The adapter of one transport, by operation.
GrpcAdapter(op, w) ==
    CASE op = "put" -> grpc_put(w)
      [] op = "get" -> grpc_get(w)
      [] op = "delete" -> grpc_delete(w)
      [] op = "create_snapshot" -> grpc_create_snapshot(w)
      [] op = "release_snapshot" -> grpc_release_snapshot(w)
      [] OTHER -> grpc_get_at_snapshot(w)

HttpAdapter(op, w) ==
    CASE op = "put" -> http_put(w)
      [] op = "get" -> http_get(w)
      [] op = "delete" -> http_delete(w)
      [] op = "create_snapshot" -> http_create_snapshot(w)
      [] op = "release_snapshot" -> http_release_snapshot(w)
      [] OTHER -> http_get_at_snapshot(w)

\* The facade: the adapter is selected by config.protocol at each call.
Facade(proto, op, w) ==
    IF proto = "grpc" THEN GrpcAdapter(op, w) ELSE HttpAdapter(op, w)

\* The request an operation puts on the wire (message fields, or path and body).
MarshalNoSnapshot(op, k, v, s) ==
    [method |-> IF op = "get_at_snapshot" THEN "get" ELSE op,
     key |-> k, value |-> v, snapshot_id |-> NoSnap]
Marshal(op, k, v, s) ==
    [method |-> op, key |-> k, value |-> v, snapshot_id |-> s]

----------------------------------------------------------------------------
\* One facade call: the request, the server's handling, the answer on the
\* wire, the adapter's outcome.

subFrame == << connected, closed, subscriptions, subscription_counter, caller,
               subVars, lateFrom, exited, exitIds, last, asyncVars, idVars >>

\* What the caller may expect of the keys and snapshot handles afterwards.
Ghost(op, k, v, s, out) ==
    /\ expect' = CASE op = "put" ->
                        [expect EXCEPT ![k] = IF out = Ret("True") THEN v ELSE Unknown]
                   [] op = "delete" ->
                        [expect EXCEPT ![k] = IF out # Ret("True") THEN Unknown
                                              ELSE IF @ \in Values THEN Deleted
                                              ELSE None]
                   [] OTHER -> expect
    /\ viewOk' = CASE op = "create_snapshot" /\ out.t = "ret" /\ out.sid \in SnapIds ->
                        viewOk \cup {out.sid}
                   [] op = "release_snapshot" -> viewOk \ {s}
                   [] OTHER -> viewOk
    /\ snapView' = CASE op = "create_snapshot" /\ out.t = "ret" /\ out.sid \in SnapIds ->
                          [snapView EXCEPT ![out.sid] = expect]
                     [] op = "release_snapshot" -> [snapView EXCEPT ![s] = EmptyStore]
                     [] OTHER -> snapView

Request(op, k, v, s) ==
    /\ \E h0 \in Handlings(protocol), app \in BOOLEAN :
         LET req == Marshal(op, k, v, s)
             h == IF h0 \in {"ok", "garbled"} /\ ~Servable(req) THEN "fail" ELSE h0
             served == IF h = "silent" THEN app /\ Servable(req)
                       ELSE h \in {"ok", "garbled"}
             val == IF h = "ok" THEN Lookup(req) ELSE None
             sid == IF req.method = "create_snapshot" /\ served
                    THEN Min(FreeSnaps) ELSE NoSnap
             srv == [h |-> h, found |-> val # None, value |-> val, sid |-> sid]
         IN /\ (h0 # "silent" => app)
            /\ IF served
               THEN ServerApply(req, sid)
               ELSE UNCHANGED << store, snapState, snaps >>
            /\ \E w \in Wire(protocol, op, srv) :
                 LET out == Facade(protocol, op, w) IN
                 /\ reply' = [op |-> op, key |-> k, val |-> v, snap |-> s,
                              srv |-> srv, wire |-> w, out |-> out]
                 /\ hung' = (out.t = "hang")
                 /\ Ghost(op, k, v, s, out)
            /\ wireLog' = << req >>
    /\ breply' = NoBReply
    /\ UNCHANGED << protocol, subFrame >>

\* The caller thread issues one call at a time, and none while one is blocked.
Put(k, v) ==
    /\ ~hung
    /\ Request("put", k, v, NoSnap)

Get(k) ==
    /\ ~hung
    /\ Request("get", k, "", NoSnap)

Delete(k) ==
    /\ ~hung
    /\ Request("delete", k, "", NoSnap)

\* The server has a bounded number of snapshot ids to give.
CreateSnapshot ==
    /\ ~hung
    /\ FreeSnaps # {}
    /\ Request("create_snapshot", "", "", NoSnap)

ReleaseSnapshot(s) ==
    /\ ~hung
    /\ Request("release_snapshot", "", "", s)

GetAtSnapshot(k, s) ==
    /\ ~hung
    /\ Request("get_at_snapshot", k, "", s)

NextKV ==
    \/ \E k \in Keys, v \in Values : Put(k, v)
    \/ \E k \in Keys : Get(k)
    \/ \E k \in Keys : Delete(k)
    \/ CreateSnapshot
    \/ \E s \in SnapIds : ReleaseSnapshot(s)
    \/ \E k \in Keys, s \in SnapIds : GetAtSnapshot(k, s)

SpecKV == Init /\ [][NextKV]_vars

----------------------------------------------------------------------------
\* batch_put, batch_get, scan and prefix_scan: the calls that carry lists.

RECURSIVE SeqsUpTo(_, _)
SeqsUpTo(S, n) ==
    IF n = 0 THEN { << >> }
    ELSE LET shorter == SeqsUpTo(S, n - 1) IN
         shorter \cup { Append(q, x) : q \in shorter, x \in S }

\* The arguments: List[KeyValue], List[str], and the limit of a scan.  A list
\* is as long as there are keys (a longer one repeats a key), and a limit is
\* at most the number of entries the store can hold.
MaxBatch == Cardinality(BatchKeys)
MaxLimit == Cardinality(BatchKeys)
KeyValue(k, v) == [key |-> k, value |-> v]
PairLists == SeqsUpTo({ KeyValue(k, v) : k \in BatchKeys, v \in Values }, MaxBatch)
KeyLists == SeqsUpTo(BatchKeys, MaxBatch)
Limits == 1 .. MaxLimit

Scans == {"scan", "prefix_scan"}

\* for pair in pairs: kv = request.pairs.add(); kv.key = ...; kv.value = ...
RECURSIVE MarshalPairs(_)
MarshalPairs(pairs) ==
    IF pairs = << >> THEN << >>
    ELSE << KeyValue(Head(pairs).key, Head(pairs).value) >> \o MarshalPairs(Tail(pairs))

ListRequest(method, pairs, keys, limit) ==
    [method |-> method, pairs |-> pairs, keys |-> keys, limit |-> limit]

\* The requests one call puts on the wire: one stub call or one session call.
batch_put_split(pairs) ==
    [i \in 1 .. Len(pairs) |->
       ListRequest("batch_put", MarshalPairs(<< pairs[i] >>), << >>, 0)]
batch_put_requests(pairs) ==
    << ListRequest("batch_put", MarshalPairs(pairs), << >>, 0) >>
batch_get_requests(keys) == << ListRequest("batch_get", << >>, keys, 0) >>
scan_requests(limit) == << ListRequest("scan", << >>, << >>, limit) >>
prefix_scan_requests(limit) == << ListRequest("prefix_scan", << >>, << >>, limit) >>

ListRequests(op, pairs, keys, limit) ==
    CASE op = "batch_put" -> batch_put_requests(pairs)
      [] op = "batch_get" -> batch_get_requests(keys)
      [] op = "scan" -> scan_requests(limit)
      [] OTHER -> prefix_scan_requests(limit)

\* result.append(KeyValue(key=pair.key, value=pair.value)) for every pair of
\* the response, in its order.
RECURSIVE UnwrapPairs(_)
UnwrapPairsFirst(ps) ==
    IF ps = << >> THEN << >> ELSE << KeyValue(Head(ps).key, Head(ps).value) >>
UnwrapPairs(ps) ==
    IF ps = << >> THEN << >>
    ELSE << KeyValue(Head(ps).key, Head(ps).value) >> \o UnwrapPairs(Tail(ps))

\* The server: a batch_put writes its pairs in order; a batch_get answers with
\* the pairs of the keys it holds, in an order of its choice; a scan answers
\* with entries of the store, in the order and number the server chooses.
RECURSIVE ApplyPairs(_, _)
ApplyPairs(st, pairs) ==
    IF pairs = << >> THEN st
    ELSE ApplyPairs([st EXCEPT ![Head(pairs).key] = Head(pairs).value], Tail(pairs))

RECURSIVE ApplyRequests(_, _)
ApplyRequests(st, reqs) ==
    IF reqs = << >> THEN st
    ELSE ApplyRequests(ApplyPairs(st, Head(reqs).pairs), Tail(reqs))

RECURSIVE FoundPairs(_, _)
FoundPairs(st, keys) ==
    IF keys = << >> THEN << >>
    ELSE (IF st[Head(keys)] = None THEN << >>
          ELSE << KeyValue(Head(keys), st[Head(keys)]) >>)
         \o FoundPairs(st, Tail(keys))

Reverse(q) == [i \in 1 .. Len(q) |-> q[Len(q) + 1 - i]]

Present(st) == { KeyValue(k, st[k]) : k \in { x \in BatchKeys : st[x] # None } }

ScanAnswers(st) ==
    { q \in SeqsUpTo(Present(st), Cardinality(BatchKeys)) :
        \A i, j \in 1 .. Len(q) : i # j => q[i] # q[j] }

ListAnswers(reqs, st) ==
    IF reqs = << >> THEN { << >> }
    ELSE LET req == reqs[Len(reqs)] IN
         CASE req.method = "batch_get" ->
                { FoundPairs(st, req.keys), Reverse(FoundPairs(st, req.keys)) }
           [] req.method \in Scans -> ScanAnswers(st)
           [] OTHER -> { << >> }

\* The answers on the two wires.  A gRPC scan is a stream of KeyValue messages
\* that ends normally or with an RpcError.
GrpcListMsg(success, pairs, err) ==
    [kind |-> "msg", success |-> success, pairs |-> pairs, error_message |-> err,
     details |-> ""]
GrpcListError(d) ==
    [kind |-> "rpcerror", success |-> FALSE, pairs |-> << >>, error_message |-> "",
     details |-> d]

GrpcListWire(op, srv) ==
    CASE srv.h = "ok" -> { GrpcListMsg(TRUE, srv.pairs, "") }
      [] srv.h = "fail" ->
           IF op \in Scans THEN { GrpcListError(e) : e \in ErrMsgs }
           ELSE { GrpcListMsg(FALSE, << >>, e) : e \in ErrMsgs }
      [] srv.h = "refused" -> { GrpcListError("failed to connect") }
      [] OTHER -> { GrpcListError("Deadline Exceeded") }

HttpListResp(status, has, pairs, err) ==
    [kind |-> "resp", status |-> status, has_field |-> has, pairs |-> pairs,
     error_message |-> err, exc |-> ""]
HttpListExc(e) ==
    [kind |-> "exc", status |-> 0, has_field |-> FALSE, pairs |-> << >>,
     error_message |-> "", exc |-> e]
HttpListNoAnswer ==
    [kind |-> "noanswer", status |-> 0, has_field |-> FALSE, pairs |-> << >>,
     error_message |-> "", exc |-> ""]

HttpListWire(op, srv) ==
    CASE srv.h = "ok" -> { HttpListResp(200, TRUE, srv.pairs, "") }
      [] srv.h = "garbled" -> { HttpListResp(200, FALSE, << >>, "") }
      [] srv.h = "fail" -> { HttpListResp(500, FALSE, << >>, e) : e \in ErrMsgs }
      [] srv.h = "refused" -> { HttpListExc("ConnectionError") }
      [] OTHER -> { HttpListNoAnswer }

ListWire(proto, op, srv) ==
    IF proto = "grpc" THEN GrpcListWire(op, srv) ELSE HttpListWire(op, srv)

\* The adapters.
grpc_batch_put(w) ==
    ListOut(IF w.kind = "rpcerror" THEN Raise("KVDBError", RpcText(w))
            ELSE IF ~w.success THEN Raise("KVDBError", w.error_message)
            ELSE Ret("True"))

http_batch_put(w) ==
    ListOut(IF w.kind # "resp" \/ w.status >= 400 THEN HttpFault(w) ELSE Ret("True"))

grpc_batch_get(w) ==
    IF w.kind = "rpcerror" THEN ListOut(Raise("KVDBError", RpcText(w)))
    ELSE IF w.error_message # "" THEN ListOut(Raise("KVDBError", w.error_message))
    ELSE RetList(UnwrapPairs(w.pairs))

http_batch_get(w) ==
    IF w.kind # "resp" \/ w.status >= 400 THEN ListOut(HttpFault(w))
    ELSE IF ~w.has_field THEN ListOut(Raise("KeyError", "pairs"))
    ELSE RetList(UnwrapPairs(w.pairs))

grpc_scan(w) ==
    IF w.kind = "rpcerror" THEN ListOut(Raise("KVDBError", RpcText(w)))
    ELSE RetList(UnwrapPairs(w.pairs))

http_scan(w) ==
    IF w.kind # "resp" \/ w.status >= 400 THEN ListOut(HttpFault(w))
    ELSE IF ~w.has_field THEN ListOut(Raise("KeyError", "pairs"))
    ELSE RetList(UnwrapPairs(w.pairs))

grpc_prefix_scan(w) ==
    IF w.kind = "rpcerror" THEN ListOut(Raise("KVDBError", RpcText(w)))
    ELSE RetList(UnwrapPairs(w.pairs))

http_prefix_scan(w) ==
    IF w.kind # "resp" \/ w.status >= 400 THEN ListOut(HttpFault(w))
    ELSE IF ~w.has_field THEN ListOut(Raise("KeyError", "pairs"))
    ELSE RetList(UnwrapPairs(w.pairs))

ListFacade(proto, op, w) ==
    CASE op = "batch_put" -> IF proto = "grpc" THEN grpc_batch_put(w) ELSE http_batch_put(w)
      [] op = "batch_get" -> IF proto = "grpc" THEN grpc_batch_get(w) ELSE http_batch_get(w)
      [] op = "scan" -> IF proto = "grpc" THEN grpc_scan(w) ELSE http_scan(w)
      [] OTHER -> IF proto = "grpc" THEN grpc_prefix_scan(w) ELSE http_prefix_scan(w)

\* The pairs of the batch_put that the caller made just before, if it succeeded.
LastBatchPut ==
    IF breply.op = "batch_put" /\ breply.out = ListOut(Ret("True"))
    THEN breply.pairs ELSE << >>

\* What the caller may expect of the keys after a batch_put.
ExpectAfterBatch(op, pairs, out) ==
    IF op # "batch_put" THEN expect
    ELSE IF out = ListOut(Ret("True")) THEN ApplyPairs(expect, pairs)
    ELSE [k \in BatchKeys |->
            IF \E i \in 1 .. Len(pairs) : pairs[i].key = k THEN Unknown ELSE expect[k]]

ListCall(op, pairs, keys, limit) ==
    /\ \E h \in Handlings(protocol), app \in BOOLEAN :
         LET reqs == ListRequests(op, pairs, keys, limit)
             served == IF h = "silent" THEN app ELSE h \in {"ok", "garbled"}
         IN /\ (h # "silent" => app)
            /\ store' = IF served THEN ApplyRequests(store, reqs) ELSE store
            /\ wireLog' = reqs
            /\ \E ans \in (IF h = "ok" THEN ListAnswers(reqs, store) ELSE { << >> }) :
                 LET srv == [h |-> h, pairs |-> ans] IN
                 \E w \in ListWire(protocol, op, srv) :
                   LET out == ListFacade(protocol, op, w) IN
                   /\ breply' = [op |-> op, pairs |-> pairs, keys |-> keys,
                                 limit |-> limit,
                                 after |-> IF op = "batch_get" THEN LastBatchPut
                                           ELSE << >>,
                                 srv |-> srv, wire |-> w, out |-> out]
                   /\ hung' = (out.t = "hang")
                   /\ expect' = ExpectAfterBatch(op, pairs, out)
    /\ reply' = NoReply
    /\ UNCHANGED << snapState, snaps, viewOk, snapView, protocol, subFrame >>

BatchPut(pairs) ==
    /\ ~hung
    /\ ListCall("batch_put", pairs, << >>, 0)

BatchGet(keys) ==
    /\ ~hung
    /\ ListCall("batch_get", << >>, keys, 0)

\* scan(options): start_key, end_key and limit go to the server, which selects.
Scan(limit) ==
    /\ ~hung
    /\ ListCall("scan", << >>, << >>, limit)

PrefixScan(limit) ==
    /\ ~hung
    /\ ListCall("prefix_scan", << >>, << >>, limit)

NextBatch ==
    \/ \E k \in BatchKeys, v \in Values : Put(k, v)
    \/ \E k \in BatchKeys : Get(k)
    \/ \E k \in BatchKeys : Delete(k)
    \/ \E pairs \in PairLists : BatchPut(pairs)
    \/ \E keys \in KeyLists : BatchGet(keys)
    \/ \E limit \in Limits : Scan(limit)
    \/ \E limit \in Limits : PrefixScan(limit)

SpecBatch == Init /\ [][NextBatch]_vars

----------------------------------------------------------------------------
\* put_async, get_async, delete_async: loop.run_in_executor(self._executor, ...)
\* queues the synchronous method on the pool; a worker thread runs it and the
\* awaitable resolves to what it returned or raised.

AsyncOps == << "put", "get", "delete" >>
TaskOp(t) == AsyncOps[(t % Len(AsyncOps)) + 1]

Queued == { t \in TaskIds : tasks[t] = "queued" }
Running == { t \in TaskIds : tasks[t] = "running" }

\* The pool starts a queued call only on a worker that is not running one.
PoolUnbounded == TRUE
PoolHasFreeWorker == Cardinality(Running) < max_workers

\* The future takes the result or the exception of the call.
ResolveSwallows(out) == IF out.t = "raise" THEN Ret(None) ELSE out
Resolve(out) == out

\* The server's answers to the call of a task; it answers every request.
AsyncAnswers(op) ==
    { [h |-> "ok", found |-> op = "get", value |-> IF op = "get" THEN "v1" ELSE None,
       sid |-> NoSnap],
      [h |-> "fail", found |-> FALSE, value |-> None, sid |-> NoSnap] }

asyncFrame == << protocol, connected, closed, subscriptions, subscription_counter,
                 caller, subVars, lateFrom, exited, exitIds, last, store,
                 snapState, snaps, expect, viewOk, snapView, hung, reply,
                 batchVars, idVars >>

\* x_async(...): the next call is handed to the executor.
Submit ==
    /\ \E t \in TaskIds :
         /\ tasks[t] = "none"
         /\ \A u \in TaskIds : u < t => tasks[u] # "none"
         /\ tasks' = [tasks EXCEPT ![t] = "queued"]
    /\ UNCHANGED << asyncFrame, resolved >>

\* A worker takes the call at the head of the queue.
TaskStart(t) ==
    /\ t \in Queued
    /\ \A u \in Queued : t <= u
    /\ PoolHasFreeWorker
    /\ tasks' = [tasks EXCEPT ![t] = "running"]
    /\ UNCHANGED << asyncFrame, resolved >>

\* The worker's call of self.put / self.get / self.delete returns or raises.
TaskFinish(t) ==
    /\ t \in Running
    /\ \E srv \in AsyncAnswers(TaskOp(t)) :
         \E w \in Wire(protocol, TaskOp(t), srv) :
           LET out == Facade(protocol, TaskOp(t), w) IN
           /\ tasks' = [tasks EXCEPT ![t] = "done"]
           /\ resolved' = [op |-> TaskOp(t), ran |-> out, fut |-> Resolve(out)]
    /\ UNCHANGED asyncFrame

NextAsync ==
    \/ Submit
    \/ \E t \in TaskIds : TaskStart(t)
    \/ \E t \in TaskIds : TaskFinish(t)

\* The executor's workers are threads that run, and the server answers.
SpecAsync ==
    /\ Init
    /\ [][NextAsync]_vars
    /\ WF_vars(\E t \in TaskIds : TaskStart(t))
    /\ WF_vars(\E t \in TaskIds : TaskFinish(t))

----------------------------------------------------------------------------
\* subscribe() called by several threads of the application: the statements of
\* lines 553-581, one step for each read or write of the client's fields.

idFrame == << protocol, connected, closed, caller, stream, sent, rcvd, delivered,
              lateFrom, exited, exitIds, store, snapState, snaps, expect, viewOk,
              snapView, hung, reply, batchVars, asyncVars >>

\* if self.config.protocol != "grpc": raise KVDBError(...)
SubTest(c) ==
    /\ sc[c].pc = "idle"
    /\ sc[c].calls < MaxCalls
    /\ IF SubscribeUnsupported
       THEN /\ last' = Done("subscribe", "KVDBError")
            /\ sc' = [sc EXCEPT ![c].calls = @ + 1]
       ELSE /\ last' = last
            /\ sc' = [sc EXCEPT ![c].pc = "read"]
    /\ UNCHANGED << idFrame, subscriptions, subscription_counter, tpc, issued, owner >>

\* subscription_id = self._subscription_counter
SubReadId(c) ==
    /\ sc[c].pc = "read"
    /\ subscription_counter < MaxSubs
    /\ sc' = [sc EXCEPT ![c].pc = "load", ![c].id = subscription_counter]
    /\ UNCHANGED << idFrame, subscriptions, subscription_counter, tpc, issued, owner,
                    last >>

\* self._subscription_counter += 1: the read of the field ...
SubLoad(c) ==
    /\ sc[c].pc = "load"
    /\ sc' = [sc EXCEPT ![c].pc = "store", ![c].tmp = subscription_counter]
    /\ UNCHANGED << idFrame, subscriptions, subscription_counter, tpc, issued, owner,
                    last >>

\* ... and the write of the sum.
SubStore(c) ==
    /\ sc[c].pc = "store"
    /\ subscription_counter' = sc[c].tmp + 1
    /\ sc' = [sc EXCEPT ![c].pc = "register", ![c].tmp = 0]
    /\ UNCHANGED << idFrame, subscriptions, tpc, issued, owner, last >>

\* self._subscriptions[subscription_id] = thread
SubRegister(c) ==
    /\ sc[c].pc = "register"
    /\ subscriptions' = subscriptions \cup {sc[c].id}
    /\ owner' = [owner EXCEPT ![sc[c].id] = c]
    /\ sc' = [sc EXCEPT ![c].pc = "start"]
    /\ UNCHANGED << idFrame, subscription_counter, tpc, issued, last >>

\* thread.start(); return subscription_id
SubReturn(c) ==
    /\ sc[c].pc = "start"
    /\ tpc' = [tpc EXCEPT ![sc[c].id] = "start"]
    /\ issued' = [issued EXCEPT ![sc[c].id] = @ + 1]
    /\ last' = Done("subscribe", "Id")
    /\ sc' = [sc EXCEPT ![c].pc = "idle", ![c].id = NoId, ![c].calls = @ + 1]
    /\ UNCHANGED << idFrame, subscriptions, subscription_counter, owner >>

NextIds ==
    \/ \E c \in Callers : SubTest(c)
    \/ \E c \in Callers : SubReadId(c)
    \/ \E c \in Callers : SubLoad(c)
    \/ \E c \in Callers : SubStore(c)
    \/ \E c \in Callers : SubRegister(c)
    \/ \E c \in Callers : SubReturn(c)
    \/ \E id \in Ids : CancelTest(id)
    \/ CancelDel

SpecIds == Init /\ [][NextIds]_vars

----------------------------------------------------------------------------

Next ==
    \/ Connect
    \/ Subscribe
    \/ \E id \in Ids : CancelTest(id)
    \/ CancelDel
    \/ DisconnectBegin
    \/ DisconnectStep
    \/ \E id \in Ids : ServerSend(id)
    \/ \E id \in Ids : ServerClose(id)
    \/ \E id \in Ids : ThreadStart(id)
    \/ \E id \in Ids : Receive(id)
    \/ \E id \in Ids : LoopTest(id)
    \/ \E id \in Ids : Callback(id)
    \/ \E id \in Ids : FinallyTest(id)
    \/ \E id \in Ids : FinallyDel(id)

Spec == Init /\ [][Next]_vars

----------------------------------------------------------------------------
\* Properties of the subscription manager and of the connection (Spec).

\* The callback invocations of id made after cancel_subscription(id) returned.
LateCalls(id) == { j \in 1 .. Len(delivered[id]) : delivered[id][j].late }

\* C1, as stated: once cancel_subscription(id) has returned, the callback of
\* subscription id is never invoked again.
C1_NoCallbackAfterCancel == \A id \in Ids : LateCalls(id) = {}

\* C1, amended: after cancel_subscription(id) has returned the callback of id is
\* invoked at most once more, and only for an event that the loop had received
\* and tested before the removal; no event that the server sends after the
\* cancellation reaches the callback.
C1_CancelStopsForwarding ==
    \A id \in Ids :
      /\ Cardinality(LateCalls(id)) <= 1
      /\ lateFrom[id] # NotCancelled =>
           \A j \in 1 .. Len(delivered[id]) : delivered[id][j].n <= lateFrom[id]

\* C1, witness: an event was sent after the cancellation, the loop received it
\* and ended without forwarding it, after the one late invocation.
C1_Witness ==
    \E id \in Ids :
      /\ lateFrom[id] # NotCancelled
      /\ sent[id] > lateFrom[id]
      /\ rcvd[id] = sent[id]
      /\ tpc[id] = "done"
      /\ LateCalls(id) # {}

\* C2: the membership test and the removal of a registry entry are never split
\* by the other side's removal: neither the receive loop nor the caller fails
\* with KeyError on an id that the other side has removed.
C2_RemovalIsExclusive ==
    /\ \A id \in Ids : tpc[id] # "crashed"
    /\ last.out # "KeyError"

\* C3: once disconnect() has ended (or the with-block has been left), the
\* client is not connected, the registry holds no subscription created before,
\* and no callback of those subscriptions is invoked afterwards.
C3_NothingOutlivesDisconnect ==
    /\ exited # "no" => ~connected /\ subscriptions \cap exitIds = {}
    /\ \A id \in Ids : \A j \in 1 .. Len(delivered[id]) : ~delivered[id][j].afterExit

\* C4: subscribe over the http transport raises KVDBError and changes nothing:
\* no stream is opened, no receive loop is started, the registry and the id
\* counter stay as they were.
C4_SubscribeHttpFailsFast ==
    protocol = "http" =>
      /\ subscriptions = {}
      /\ subscription_counter = 0
      /\ \A id \in Ids : tpc[id] = "none" /\ stream[id] = "none" /\ sent[id] = 0
      /\ last.op = "subscribe" => last.out = "KVDBError"

\* C4, witness: subscribe was called on an http client and raised.
C4_Witness == protocol = "http" /\ last = Done("subscribe", "KVDBError")

\* The ids that subscribe has returned, and those whose receive loop has ended.
Created == 0 .. (subscription_counter - 1)
LoopExited(id) == tpc[id] \in {"done", "crashed"}

\* C16: a subscription is in the registry (Active) from subscribe on, with a
\* receive loop that has not ended; once its loop has ended, for whatever
\* reason, its id is absent from the registry; and an id that has left the
\* registry (Cancelled or Terminated) never enters it again.
C16_SubscriptionLifecycle ==
    /\ [](\A id \in Ids :
            /\ id \in subscriptions => id \in Created /\ ~LoopExited(id)
            /\ LoopExited(id) => id \notin subscriptions)
    /\ [][\A id \in Created : id \notin subscriptions => id \notin subscriptions']_vars

\* C16, witness: one subscription was cancelled and its loop ended at the test
\* of the registry, the other was terminated by the end of its stream.
C16_Witness ==
    /\ subscriptions = {}
    /\ \A id \in Ids : tpc[id] = "done"
    /\ 0 \in CancelReturned /\ rcvd[0] > Len(delivered[0])
    /\ 1 \notin CancelReturned /\ stream[1] = "ended"

\* C17: the callback of a subscription is invoked with the events of its own
\* stream only, in stream order, each at most once and none skipped; while the
\* subscription is Active and its loop waits for the next event, every event
\* received so far has been passed to the callback exactly once.
C17_OneCallbackPerEvent ==
    \A id \in Ids :
      /\ \A j \in 1 .. Len(delivered[id]) :
           delivered[id][j].n = j /\ delivered[id][j].src = id
      /\ Len(delivered[id]) <= rcvd[id]
      /\ id \in subscriptions /\ tpc[id] = "recv" => Len(delivered[id]) = rcvd[id]

\* C17, witness: two Active subscriptions, every event of both streams delivered.
C17_Witness ==
    \A id \in Ids :
      /\ id \in subscriptions
      /\ tpc[id] = "recv"
      /\ sent[id] = MaxEvents
      /\ Len(delivered[id]) = MaxEvents

\* C18: is_connected() is false after construction and after disconnect(), true
\* after a connect() that returned True; it becomes true only by a connect()
\* that returns True, and a connect() that raises ConnectionError leaves it as
\* it was.
C18_ConnectionState ==
    /\ [](/\ last.op \in {"init", "disconnect"} => ~connected
          /\ last = Done("connect", "True") /\ caller.pc = "idle" => connected)
    /\ [][/\ connected' /\ ~connected => last' = Done("connect", "True")
          /\ last' = Done("connect", "ConnectionError") /\ last' # last =>
               connected' = connected]_vars

\* C18, witness: a connect() that raised on a client that an earlier connect()
\* had connected, which is still connected.
C18_Witness ==
    /\ last = Done("connect", "ConnectionError")
    /\ connected

\* C20: a cancel_subscription(id) that finds id absent from the registry
\* (unknown, already cancelled, already terminated) returns None and changes
\* neither the registry, the counter nor any receive loop; and an id leaves the
\* registry only by its own cancellation or by its own loop, never by the
\* cancellation of another id.
C20_CancelIsLocal ==
    /\ [][caller.pc = "idle" /\ caller'.pc = "idle" /\ last'.op = "cancel"
            /\ (last' # last \/ lateFrom' # lateFrom) =>
              /\ last'.out = "None"
              /\ UNCHANGED << subscriptions, subscription_counter, subVars >>]_vars
    /\ [][\A id \in Ids : id \in subscriptions /\ id \notin subscriptions' =>
              \/ caller.pc = "cancel_del" /\ caller.id = id
              \/ tpc[id] = "del"]_vars

\* C20, witness: cancel_subscription of an id that was never handed out has
\* returned, and the one subscription there is is still registered, its loop
\* running, with every event of its stream delivered.
C20_Witness ==
    /\ last = Done("cancel", "None")
    /\ subscription_counter = 1
    /\ CancelReturned = {}
    /\ 0 \in subscriptions
    /\ tpc[0] = "recv" /\ Len(delivered[0]) = MaxEvents

----------------------------------------------------------------------------
\* Properties of the facade calls (SpecKV).

\* The exception classes of the client (exceptions.py).
KVDBErrorClasses ==
    {"KVDBError", "ConnectionError", "TimeoutError", "AuthenticationError",
     "PermissionError", "InvalidArgumentError", "ResourceNotFoundError",
     "ResourceExistsError", "InternalError"}

\* What a read returns for an expected content of the key.
Shown(x) == IF x = Deleted THEN None ELSE x

\* Whether the answer on the wire says that the key was found / not found.
WireFound(w) == IF protocol = "grpc" THEN w.found ELSE w.status = 200 /\ w.has_field
WireNotFound(w) == IF protocol = "grpc" THEN ~w.found ELSE w.status = 404

\* C5: get and get_at_snapshot return the value when the key is found, None when
\* it is not found and the server reports no error, and raise whenever the
\* server reports an error message, also with a not-found answer.
C5_ReadsClassifyAnswers ==
    reply.op \in Reads /\ reply.wire.kind \in {"msg", "resp"} =>
      LET w == reply.wire IN
      /\ w.error_message # "" => reply.out.t = "raise"
      /\ w.error_message = "" /\ WireFound(w) => reply.out = Ret(w.value)
      /\ w.error_message = "" /\ WireNotFound(w) => reply.out = Ret(None)

\* C6: a call that the server does not answer within request_timeout ends by
\* raising TimeoutError; no call blocks for ever.
C6_SilenceRaisesTimeoutError ==
    /\ reply.out.t # "hang"
    /\ reply.srv.h = "silent" => reply.out.t = "raise" /\ reply.out.v = "TimeoutError"

\* C7: every failure that escapes a facade call is a KVDBError (or one of its
\* subclasses), and a refused connection or a non-success status is raised,
\* not swallowed.
C7_FailuresAreKVDBErrors ==
    /\ reply.out.t = "raise" => reply.out.v \in KVDBErrorClasses
    /\ reply.srv.h = "refused" => reply.out.t = "raise"
    /\ reply.wire.kind = "resp" /\ reply.wire.status >= 500 => reply.out.t = "raise"

\* Two outcomes agree: the same result, or an error on both sides.
SameResult(a, b) == a = b \/ (a.t = "raise" /\ b.t = "raise")

\* C8: for the same request handled the same way by the server, the gRPC
\* adapter and the HTTP adapter return the same result or both raise.
C8_AdaptersAgree ==
    reply.op # "none" /\ reply.srv.h \in Handlings("grpc") =>
      \A g \in GrpcWire(reply.op, reply.srv), w \in HttpWire(reply.op, reply.srv) :
        SameResult(GrpcAdapter(reply.op, g), HttpAdapter(reply.op, w))

\* C9: with no other writer, a get that the server answers returns the value of
\* the last put that succeeded on the key, and None (no error) once a delete
\* of the key has succeeded.
C9_PutGetDeleteGet ==
    reply.op = "get" /\ reply.srv.h = "ok" /\ expect[reply.key] # Unknown =>
      reply.out = Ret(Shown(expect[reply.key]))

\* C9, witness: a get has returned None for a key that was put, then deleted.
C9_Witness ==
    /\ reply.op = "get"
    /\ reply.srv.h = "ok"
    /\ expect[reply.key] = Deleted
    /\ reply.out = Ret(None)

\* C10: while the client holds snapshot s, get_at_snapshot(k, s) returns the
\* value k had when s was created, whatever was put since, and a plain get
\* returns the value put since.
C10_SnapshotIsolation ==
    /\ reply.op = "get_at_snapshot" /\ reply.srv.h = "ok" /\ reply.snap \in viewOk
         /\ snapView[reply.snap][reply.key] # Unknown =>
           reply.out = Ret(Shown(snapView[reply.snap][reply.key]))
    /\ reply.op = "get" /\ reply.srv.h = "ok" /\ viewOk # {}
         /\ expect[reply.key] \in Values =>
           reply.out = Ret(expect[reply.key])

\* C10, witness: the snapshot read returned the old value after a put of
\* another value.
C10_Witness ==
    /\ reply.op = "get_at_snapshot"
    /\ reply.snap \in viewOk
    /\ reply.out = Ret("v1")
    /\ snapView[reply.snap][reply.key] = "v1"
    /\ expect[reply.key] = "v2"

\* C14: put and delete return True or raise a database error; they raise on
\* every failure the server reports and on every transport fault, and the error
\* carries the message the server reported.
C14_PutDeleteTrueOrRaise ==
    reply.op \in {"put", "delete"} =>
      /\ \/ reply.out = Ret("True")
         \/ reply.out.t = "raise" /\ reply.out.v \in KVDBErrorClasses
      /\ reply.srv.h \in {"fail", "refused", "silent"} => reply.out.t = "raise"
      /\ reply.wire.kind \in {"msg", "resp"} /\ reply.wire.error_message # "" =>
           reply.out.msg = reply.wire.error_message

----------------------------------------------------------------------------
\* Properties of the calls that carry lists (SpecBatch).

KeysOf(pairs) == [i \in 1 .. Len(pairs) |-> pairs[i].key]
Distinct(q) == \A i, j \in 1 .. Len(q) : i # j => q[i] # q[j]
AsSet(q) == { q[i] : i \in 1 .. Len(q) }

\* C11: a batch_get of the N keys of the batch_put made just before (N pairs
\* with distinct keys, which succeeded) returns N entries that are, as a set,
\* exactly those pairs, when the server answers it; a batch_put carries the
\* whole list in its order, and a batch_get returns the whole response in its
\* order.
C11_BatchRoundTrip ==
    /\ breply.op = "batch_get" /\ breply.srv.h = "ok" /\ breply.after # << >>
         /\ Distinct(KeysOf(breply.after))
         /\ Len(breply.keys) = Len(breply.after)
         /\ AsSet(breply.keys) = AsSet(KeysOf(breply.after)) =>
           /\ breply.out.t = "ret"
           /\ Len(breply.out.list) = Len(breply.after)
           /\ AsSet(breply.out.list) = AsSet(breply.after)
    /\ breply.op = "batch_put" => wireLog[1].pairs = breply.pairs
    /\ breply.op = "batch_get" => wireLog[1].keys = breply.keys
    /\ breply.op = "batch_get" /\ breply.out.t = "ret" =>
         breply.out.list = breply.wire.pairs

\* C11, witness: two pairs were put, their keys were read in the other order,
\* and the server answered in an order of its own.
C11_Witness ==
    /\ breply.op = "batch_get"
    /\ Len(breply.after) = MaxBatch
    /\ Distinct(KeysOf(breply.after))
    /\ breply.keys = Reverse(KeysOf(breply.after))
    /\ breply.out = RetList(breply.after)

C13_ScanBoundedInOrder ==
    breply.op \in Scans /\ breply.out.t = "ret" =>
      /\ Len(breply.out.list) <= breply.limit
      /\ breply.out.list = SubSeq(breply.wire.pairs, 1, Len(breply.out.list))

----------------------------------------------------------------------------
\* Properties of the async wrapper (SpecAsync).

\* C15: an async call resolves to the result or the error of the one
\* synchronous call that its worker ran; at most max_workers calls run at a
\* time; and, the server answering every request, every call that was made
\* is completed in the end.
C15_AsyncWrapper ==
    /\ [](/\ Cardinality(Running) <= max_workers
          /\ resolved.op # "none" =>
               /\ resolved.fut = resolved.ran
               /\ resolved.ran.t \in {"ret", "raise"}
          /\ resolved.op = "none" => \A t \in TaskIds : tasks[t] # "done")
    /\ <>[](Queued = {} /\ Running = {})

\* C15, witness: max_workers calls are running while one more waits.
C15_Witness ==
    /\ Cardinality(Running) = max_workers
    /\ Queued # {}

----------------------------------------------------------------------------
\* Properties of subscribe called from several threads (SpecIds).

\* C19: no id is returned by two subscribe calls, the registry holds for each
\* id the receive loop of the call that returned it, and the id counter never
\* decreases.
C19_IdsAreUnique ==
    /\ [](\A id \in Ids : issued[id] <= 1)
    /\ [](\A c \in Callers : sc[c].pc = "start" => owner[sc[c].id] = c)
    /\ [][subscription_counter' >= subscription_counter]_vars

====
